---------------------------- MODULE Spec2Model ----------------------------
(***************************************************************************)
(* Telegram content bot: conversation store with its processing lock, the  *)
(* per-user rate limiter, and the dialogue controller's message handlers   *)
(* (titles -> outline -> article).  Each handler is an async function; an  *)
(* action below is one synchronous segment of a handler, from one await to *)
(* the next, so the interleavings of TLC are those of the event loop.      *)
(***************************************************************************)
EXTENDS Integers, Sequences, FiniteSets, TLC

VARIABLES
  conversations,  \* ConversationManager.conversations : key -> ConversationState
  locks,          \* ConversationManager.locks         : keys with a LockInfo
  limits,         \* RateLimiter.limits                : userId -> RateLimitInfo
  now,            \* Date.now(), in milliseconds
  botMode,        \* config.telegram.botMode
  rateEnabled,    \* config.rateLimit.enabled
  handlers,       \* the units of work: one record per handler slot
  lastCheck,      \* result of the latest checkLimit call (history)
  lastMsg,        \* the latest inbound update and what admission did (history)
  lastAcq,        \* the latest tryAcquireLock call and its result (history)
  reclaimed,      \* keys whose lock a sweep reclaimed, until the next acquisition (history)
  lockWinners,    \* slots whose tryAcquireLock returned true since the last releaseLock (history)
  rlWindow,       \* the current 60-second window of the user and the calls in it (history)
  tracing,        \* which history the specification records: "none", "run", "admission", "lock"
  events,         \* the events of the run, recorded when tracing = "run" (history)
  aiConfig,       \* config.ai: defaultProvider and backupAI, shared with the config UI
  router,         \* AIRouter.generateJSON: the request in progress and its history
  orphans,        \* provider calls that lost the race of withTimeout, followed when tracing = "timeout"
  rateLimitConfig,\* config.rateLimit: the four timeouts, in milliseconds (0: not set)
  timeoutReport,  \* the latest timeout of a stage: the timeout applied and the minutes reported (history)
  botManager,     \* BotManager and TelegramService: the bot instances and the restartBot calls in progress
  uncleaned       \* a RateLimiter given the same checkLimit calls whose cleanup never runs (reference)

vars == <<conversations, locks, limits, now, botMode, rateEnabled, handlers,
          lastCheck, lastMsg, lastAcq, reclaimed, lockWinners, rlWindow,
          tracing, events, aiConfig, router, orphans, rateLimitConfig, timeoutReport,
              botManager, uncleaned>>

-----------------------------------------------------------------------------
(* Bounds of the model *)

MaxTicks == 1             \* the clock of the system stops after this many long waits
MaxRequestsPerMinute == 2 \* config.rateLimit.maxRequestsPerMinute in the model
MaxRLTime == 130000       \* the clock of the rate-limiter specification stops here
MaxRunMsgs == 3           \* inbound updates of the single-run specification
MaxLockTime == 2          \* the clock of the lock specification stops here (ms)
MaxSweeps == 4            \* timer periods of the sweep specification

(* Program constants *)

lockTimeoutMs == 600000         \* stale-lock threshold
lockPromiseTimeoutMs == 300000  \* lock-promise pruning threshold
sweepInterval == 300000         \* period of the conversation manager's timer
inactiveTimeout == 3600000      \* idle eviction threshold
windowDuration == 60000         \* rate-limit window
rlCleanupInterval == 60000      \* period of the rate limiter's timer
webhookMaxRetries == 3          \* maxRetries of sendWebhookWithRetry

-----------------------------------------------------------------------------
(* Values *)

Users == {"u1"}
Chats == {7}
Slots == {1, 2}                 \* handler slots: the units of work that can overlap

Undefined == -1                 \* an unset Date field
NoTask == "undefined"           \* an unset processingTask
NoTopic == "undefined"          \* an unset topic
NoTitle == -1                   \* an unset selectedTitle
EmptyTitle == 0                 \* the title ""
NoTitles == <<-1>>              \* an unset generatedTitles (or a non-array)
NoOutline == [undefined |-> TRUE]

\* A title is identified by the provider response g it came from and its
\* position i in that response.
Title(g, i) == 100 * g + i
TitleList(g, n) == [i \in 1..n |-> Title(g, i)]

\* What the title stage can return: ten titles, a short list that holds an
\* empty title, or a response without a titles array.
TitleResponses ==
  { TitleList(1, 10), <<Title(2, 1), EmptyTitle>>, NoTitles }

\* An outline: whether each inference field is non-empty, and for each section
\* whether its heading is non-empty.
Outline(kw, aud, pur, secs) ==
  [targetKeyword |-> kw, targetAudience |-> aud, contentPurpose |-> pur, outline |-> secs]
OutlineResponses ==
  { Outline(TRUE, TRUE, TRUE, <<TRUE, TRUE, TRUE>>),
    Outline(TRUE, TRUE, TRUE, <<TRUE, TRUE>>) }

\* Inbound texts: the text after trim(), its length, the number of zero-width
\* characters in it, and what parseInt(text, 10) yields.
Text(id, len, zw, nan, num) == [id |-> id, len |-> len, zw |-> zw, nan |-> nan, num |-> num]
Texts ==
  { Text("banh mi viet nam", 16, 0, TRUE, 0),
    Text("abc", 3, 0, TRUE, 0),
    Text("3", 1, 0, FALSE, 3),
    Text("2", 1, 0, FALSE, 2),
    Text("11", 2, 0, FALSE, 11) }

\* Commands are texts that start with "/" (the keyboard buttons are routed to
\* the same handlers).
CommandNames == {"/generate", "/cancel", "/help", "/stats"}
Commands == {Text(n, 7, 0, TRUE, 0) : n \in CommandNames}
Messages == Texts \cup Commands

-----------------------------------------------------------------------------
(* Maps *)

Put(m, k, v) == [x \in (DOMAIN m) \cup {k} |-> IF x = k THEN v ELSE m[x]]
Del(m, k) == [x \in (DOMAIN m) \ {k} |-> m[x]]
EmptyMap == [x \in {} |-> 0]

getKey(userId, chatId) == <<userId, chatId>>

-----------------------------------------------------------------------------
(* ConversationManager *)

NewConversation(t) ==
  [step |-> "idle", topic |-> NoTopic, generatedTitles |-> NoTitles,
   selectedTitle |-> NoTitle, generatedOutline |-> NoOutline,
   isProcessing |-> FALSE, processingTask |-> NoTask,
   lockAcquiredAt |-> Undefined, lastActivity |-> t]

\* getConversation: creates the entry when absent, refreshes lastActivity.
getConversation(convs, key, t) ==
  IF key \in DOMAIN convs
    THEN Put(convs, key, [convs[key] EXCEPT !.lastActivity = t])
    ELSE Put(convs, key, NewConversation(t))

\* Object.assign(conversation, updates): updates is a record of some fields.
Assign(c, updates) ==
  [f \in DOMAIN c |-> IF f \in DOMAIN updates THEN updates[f] ELSE c[f]]

updateConversation(convs, key, updates, t) ==
  LET cs == getConversation(convs, key, t)
  IN  Put(cs, key, [Assign(cs[key], updates) EXCEPT !.lastActivity = t])

\* A tryAcquireLock that does not look at isProcessing.
tryAcquireLock_alwaysGrants(convs, key, task, t) ==
  LET cs == getConversation(convs, key, t)
  IN  [ok |-> TRUE,
       convs |-> Put(cs, key, [cs[key] EXCEPT !.isProcessing = TRUE,
                                              !.processingTask = task,
                                              !.lockAcquiredAt = t,
                                              !.lastActivity = t])]

\* tryAcquireLock: no entry is ever added to locks, so the wait on a pending
\* lock promise is never taken and the body runs without suspension.
tryAcquireLock(convs, key, task, t) ==
  LET cs == getConversation(convs, key, t)
  IN  IF cs[key].isProcessing
        THEN [ok |-> FALSE, convs |-> cs]
        ELSE [ok |-> TRUE,
              convs |-> Put(cs, key, [cs[key] EXCEPT !.isProcessing = TRUE,
                                                     !.processingTask = task,
                                                     !.lockAcquiredAt = t,
                                                     !.lastActivity = t])]

\* A releaseLock that leaves the lock in place.
releaseLock_keepsLock(convs, key, t) == convs

releaseLock(convs, key, t) ==
  IF key \in DOMAIN convs
    THEN Put(convs, key, [convs[key] EXCEPT !.isProcessing = FALSE,
                                            !.processingTask = NoTask,
                                            !.lockAcquiredAt = Undefined,
                                            !.lastActivity = t])
    ELSE convs

resetConversation(convs, key) == Del(convs, key)

\* cleanup: evicts the conversations inactive for more than one hour.
cleanup(convs, t) ==
  [k \in {x \in DOMAIN convs : ~(t - convs[x].lastActivity > inactiveTimeout)} |-> convs[k]]

IsStale(c, t) ==
  c.isProcessing /\ c.lockAcquiredAt # Undefined /\ t - c.lockAcquiredAt > lockTimeoutMs

\* A sweep that spares the stale locks.
cleanupStaleLocks_sparesLocks(convs, t) == convs

cleanupStaleLocks(convs, t) ==
  [k \in DOMAIN convs |->
     IF IsStale(convs[k], t)
       THEN [convs[k] EXCEPT !.isProcessing = FALSE, !.processingTask = NoTask,
                             !.lockAcquiredAt = Undefined, !.lastActivity = t]
       ELSE convs[k]]

\* The timer callback of the constructor: cleanup, then cleanupStaleLocks
\* (cleanupOldLockPromises only touches locks).
cleanupInterval(convs, t) == cleanupStaleLocks(cleanup(convs, t), t)

-----------------------------------------------------------------------------
(* RateLimiter *)

\* Math.ceil(a / b) for a >= 0, b > 0
Ceil(a, b) == (a + b - 1) \div b

\* A checkLimit that rejects only above the limit.
checkLimit_oneTooMany(lim, userId, enabled, t) ==
  IF ~enabled THEN [limits |-> lim, allowed |-> TRUE, retryAfter |-> 0]
  ELSE
    LET l0 == IF userId \in DOMAIN lim THEN lim[userId]
              ELSE [requestCount |-> 0, windowStart |-> t]
        l1 == IF t - l0.windowStart >= windowDuration
                THEN [requestCount |-> 0, windowStart |-> t]
                ELSE l0
    IN  IF l1.requestCount > MaxRequestsPerMinute
          THEN [limits |-> Put(lim, userId, l1), allowed |-> FALSE,
                retryAfter |-> Ceil(windowDuration - (t - l1.windowStart), 1000)]
          ELSE [limits |-> Put(lim, userId, [l1 EXCEPT !.requestCount = @ + 1]),
                allowed |-> TRUE, retryAfter |-> 0]

\* checkLimit: the entry after the call and the result of the call.
checkLimit(lim, userId, enabled, t) ==
  IF ~enabled THEN [limits |-> lim, allowed |-> TRUE, retryAfter |-> 0]
  ELSE
    LET l0 == IF userId \in DOMAIN lim THEN lim[userId]
              ELSE [requestCount |-> 0, windowStart |-> t]
        l1 == IF t - l0.windowStart >= windowDuration
                THEN [requestCount |-> 0, windowStart |-> t]
                ELSE l0
    IN  IF l1.requestCount >= MaxRequestsPerMinute
          THEN [limits |-> Put(lim, userId, l1), allowed |-> FALSE,
                retryAfter |-> Ceil(windowDuration - (t - l1.windowStart), 1000)]
          ELSE [limits |-> Put(lim, userId, [l1 EXCEPT !.requestCount = @ + 1]),
                allowed |-> TRUE, retryAfter |-> 0]

\* A cleanup that evicts every entry, whatever its age.
rlCleanup_evictsAll(lim, t) ==
  [u \in {x \in DOMAIN lim : ~(t - lim[x].windowStart >= 0)} |-> lim[u]]

\* RateLimiter.cleanup: evicts the entries older than two windows.
rlCleanup(lim, t) ==
  [u \in {x \in DOMAIN lim : ~(t - lim[x].windowStart >= windowDuration * 2)} |-> lim[u]]

-----------------------------------------------------------------------------
(* Handler slots *)

\* cancelled is history: /cancel arrived while the slot's provider call was
\* in flight.
FreeHandler ==
  [pc |-> "free", key |-> getKey("u1", 7), acquired |-> FALSE, topic |-> NoTopic,
   title |-> NoTitle, outline |-> NoOutline, attempt |-> 0, cancelled |-> FALSE]

\* The provider stages in flight: a handler between the start of a stage's
\* provider call and its completion.
StagePcs == {"titles_call", "outline_call", "article_call"}

\* sanitizeInput and validateTopic: zero-width characters are removed before
\* the length is checked.
sanitizedLen(text) == text.len - text.zw
\* A validateTopic without the lower bound of the length.
validateTopic_noMinimum(text) ==
  sanitizedLen(text) # 0 /\ ~(sanitizedLen(text) > 200)

validateTopic(text) ==
  sanitizedLen(text) # 0 /\ ~(sanitizedLen(text) < 5) /\ ~(sanitizedLen(text) > 200)

validateTitleSelection(text) == ~text.nan /\ ~(text.num < 1 \/ text.num > 10)

\* A validateOutline without the check of the number of sections.
validateOutline_anyLength(o) ==
  /\ o # NoOutline
  /\ o.targetKeyword /\ o.targetAudience /\ o.contentPurpose
  /\ \A i \in 1..Len(o.outline) : o.outline[i]

\* validateOutline: inference fields non-empty, at least 3 sections, every
\* heading non-empty.
validateOutline(o) ==
  /\ o # NoOutline
  /\ o.targetKeyword /\ o.targetAudience /\ o.contentPurpose
  /\ ~(Len(o.outline) < 3)
  /\ \A i \in 1..Len(o.outline) : o.outline[i]

\* Ghost of the rate limiter's window, kept apart from its counter: a call
\* made 60 s or more after the start of the window opens a new window.
WindowAfterCall(w, t) ==
  IF w.calls = 0 \/ t - w.start >= windowDuration
    THEN [start |-> t, calls |-> 1]
    ELSE [start |-> w.start,
          calls |-> IF w.calls > MaxRequestsPerMinute + 1 THEN w.calls ELSE w.calls + 1]

Emit(evs) == events' = IF tracing = "run" THEN events \o evs ELSE events

-----------------------------------------------------------------------------
(* Frames and history updates shared by the actions *)

Config == UNCHANGED <<botMode, rateEnabled, tracing, now, locks, aiConfig, router, orphans,
                      rateLimitConfig, timeoutReport,
              botManager>>

\* AIRouter.getTimeout: the timeout of the task type when it is set, else
\* aiRequestTimeout.
getTimeout(taskType, rl) ==
  IF taskType = "titles" /\ rl.aiTitleTimeout # 0 THEN rl.aiTitleTimeout
  ELSE IF taskType = "outline" /\ rl.aiOutlineTimeout # 0 THEN rl.aiOutlineTimeout
  ELSE IF taskType = "article" /\ rl.aiArticleTimeout # 0 THEN rl.aiArticleTimeout
  ELSE rl.aiRequestTimeout

\* The minutes in the timeout message of a stage:
\* Math.round(config.rateLimit.aiRequestTimeout / 60000).
timeoutMinutes(rl) == (rl.aiRequestTimeout + 30000) \div 60000

NoReport == [stage |-> "none", applied |-> 0, minutes |-> 0]

\* The frame of a step in which the provider call of a stage settles.  When
\* the timer of withTimeout wins the race, the underlying call is still in
\* flight; nothing awaits it any more.
CallFrame(hd, outcome, stage) ==
  /\ UNCHANGED <<botMode, rateEnabled, tracing, now, locks, aiConfig, router, rateLimitConfig,
                 botManager>>
  /\ timeoutReport' = IF tracing = "timeout" /\ outcome = "timeout"
                        THEN [stage |-> stage,
                              applied |-> getTimeout(stage, rateLimitConfig),
                              minutes |-> timeoutMinutes(rateLimitConfig)]
                        ELSE timeoutReport
  /\ orphans' = IF tracing = "timeout" /\ outcome = "timeout"
                  THEN orphans \cup {[key |-> hd.key, stage |-> stage, settled |-> FALSE]}
                  ELSE orphans
NoAdmission == UNCHANGED <<limits, lastCheck, lastMsg, rlWindow, uncleaned>>

SetHandler(h, hd) == handlers' = [handlers EXCEPT ![h] = hd]

WinnersOf(key) == {w \in lockWinners : w[2] = key}

\* History of the lock: rel says whether releaseLock was called for key in
\* this step, acq is "none", "ok" or "fail" for the tryAcquireLock call made
\* (after the release, if both happen).
LockHistory(h, key, rel, acq) ==
  LET afterRel == IF rel THEN lockWinners \ WinnersOf(key) ELSE lockWinners
  IN  /\ lockWinners' = IF tracing # "lock" THEN lockWinners
                         ELSE IF acq = "ok" THEN afterRel \cup {<<h, key>>} ELSE afterRel
      /\ lastAcq' = IF tracing # "lock" \/ acq = "none" THEN lastAcq
                    ELSE [ok |-> (acq = "ok"), key |-> key, called |-> TRUE,
                          afterReclaim |-> (key \in reclaimed)]
      /\ reclaimed' = IF acq = "none" THEN reclaimed ELSE reclaimed \ {key}

AcqOf(r) == IF r.ok THEN "ok" ELSE "fail"

-----------------------------------------------------------------------------
(* Dialogue controller: arrival of an update *)

Res(convs, hd, reply, acq, evs) ==
  [convs |-> convs, hd |-> hd, reply |-> reply, acq |-> acq, evs |-> evs]

\* handleTopicInput up to the await of tryAcquireLock.
handleTopicInput(cs, key, text, t) ==
  IF ~validateTopic(text)
    THEN Res(cs, FreeHandler, "invalid", "none", <<>>)
    ELSE LET r == tryAcquireLock(cs, key, "titles", t)
         IN  Res(r.convs,
                 [FreeHandler EXCEPT !.pc = "topic_lock", !.key = key,
                                     !.acquired = r.ok, !.topic = text.id],
                 "", AcqOf(r), <<>>)

\* handleTitleSelection up to the await of tryAcquireLock.  A missing titles
\* list throws; handleMessage catches, sends the error and then resets.
handleTitleSelection(cs, key, text, t) ==
  LET titles == cs[key].generatedTitles
  IN  IF titles = NoTitles
        THEN Res(cs, [FreeHandler EXCEPT !.pc = "msg_error", !.key = key],
                 "error", "none", <<>>)
      ELSE IF ~validateTitleSelection(text)
        THEN Res(cs, FreeHandler, "invalid", "none", <<>>)
      ELSE IF text.nan \/ text.num < 1 \/ text.num > 10
        THEN Res(cs, FreeHandler, "invalid", "none", <<>>)
      ELSE IF Len(titles) < text.num
        THEN Res(cs, [FreeHandler EXCEPT !.pc = "sel_reset", !.key = key],
                 "no_title", "none", <<>>)
      ELSE IF titles[text.num] = EmptyTitle
        THEN Res(cs, [FreeHandler EXCEPT !.pc = "sel_reset", !.key = key],
                 "no_title", "none", <<>>)
      ELSE LET r == tryAcquireLock(cs, key, "outline", t)
           IN  Res(r.convs,
                   [FreeHandler EXCEPT !.pc = "sel_lock", !.key = key,
                                       !.acquired = r.ok, !.title = titles[text.num]],
                   "", AcqOf(r), <<>>)

\* handleMessage after its rate check: the switch on the conversation's step.
handleMessage(convs, key, text, t) ==
  LET cs == getConversation(convs, key, t)
      step == cs[key].step
  IN  IF step = "idle" THEN Res(cs, FreeHandler, "idle_hint", "none", <<>>)
      ELSE IF step = "waiting_topic" THEN handleTopicInput(cs, key, text, t)
      ELSE IF step = "waiting_title_selection" THEN handleTitleSelection(cs, key, text, t)
      ELSE Res(cs, FreeHandler, "invalid_state", "none", <<>>)

\* handleGenerate after its rate check.
handleGenerate(convs, key, t) ==
  Res(updateConversation(resetConversation(convs, key), key,
                         [step |-> "waiting_topic"], t),
      FreeHandler, "ask_topic", "none", <<>>)

handleCancel(convs, key) ==
  Res(resetConversation(convs, key), FreeHandler, "cancelled", "none", <<>>)

\* handleStats: the reply shows conversationManager.getStats().activeConversations,
\* the size of the store.
statsReply(n) == IF n = 0 THEN "stats_0" ELSE IF n = 1 THEN "stats_1" ELSE "stats_n"

handleStats(convs) ==
  Res(convs, FreeHandler, statsReply(Cardinality(DOMAIN convs)), "none", <<>>)

\* The route of an admitted update, up to its first await.
dispatch(convs, key, m, t) ==
  IF m.id = "/generate" THEN handleGenerate(convs, key, t)
  ELSE IF m.id = "/cancel" THEN handleCancel(convs, key)
  ELSE IF m.id = "/help" THEN Res(convs, FreeHandler, "help", "none", <<>>)
  ELSE IF m.id = "/stats" THEN handleStats(convs)
  ELSE handleMessage(convs, key, m, t)

IsText(m) == m.id \notin CommandNames
ChecksItself(m) == IsText(m) \/ m.id = "/generate"

\* The rate check a route makes, or none.
Gate(doCheck, lim, userId, t) ==
  IF doCheck THEN checkLimit(lim, userId, rateEnabled, t)
  ELSE [limits |-> lim, allowed |-> TRUE, retryAfter |-> 0]

RECURSIVE WindowAfterCalls(_, _, _)
WindowAfterCalls(w, t, n) ==
  IF n = 0 THEN w ELSE WindowAfterCalls(WindowAfterCall(w, t), t, n - 1)

\* An update m from user u in chat c is taken by the free slot h.  In webhook
\* mode the endpoint makes a rate check of its own before handleBotMessage;
\* handleGenerate and handleMessage make theirs in both modes.
Receive(h, u, c, m) ==
  /\ handlers[h].pc = "free"
  /\ \A g \in Slots : g < h => handlers[g].pc # "free"
  /\ tracing = "run" => Len(SelectSeq(events, LAMBDA e : e[1] = "msg")) < MaxRunMsgs
  /\ LET key == getKey(u, c)
         g1 == Gate(botMode = "webhook", limits, u, now)
         g2 == Gate(g1.allowed /\ ChecksItself(m), g1.limits, u, now)
         checks == (IF botMode = "webhook" THEN 1 ELSE 0)
                   + (IF g1.allowed /\ ChecksItself(m) THEN 1 ELSE 0)
         admitted == g1.allowed /\ g2.allowed
         res == IF ~admitted THEN Res(conversations, FreeHandler, "rate", "none", <<>>)
                ELSE dispatch(conversations, key, m, now)
         last == IF g1.allowed /\ ChecksItself(m) THEN g2 ELSE g1
         Result(g) == [allowed |-> g.allowed, retryAfter |-> g.retryAfter]
         s1 == Gate(botMode = "webhook", uncleaned.limits, u, now)
         s2 == Gate(g1.allowed /\ ChecksItself(m), s1.limits, u, now)
         pairs == (IF botMode = "webhook"
                     THEN <<[real |-> Result(g1), ref |-> Result(s1)]>> ELSE <<>>)
                  \o (IF g1.allowed /\ ChecksItself(m)
                        THEN <<[real |-> Result(g2), ref |-> Result(s2)]>> ELSE <<>>)
     IN  /\ limits' = g2.limits
         /\ uncleaned' = IF tracing # "admission" THEN uncleaned
                         ELSE [limits |-> s2.limits, calls |-> pairs,
                               afterEviction |-> /\ pairs # <<>>
                                                 /\ u \in DOMAIN uncleaned.limits
                                                 /\ u \notin DOMAIN limits]
         /\ conversations' = res.convs
         /\ handlers' = [g \in Slots |->
                IF g = h THEN res.hd
                ELSE IF admitted /\ m.id = "/cancel" /\ handlers[g].key = key
                        /\ handlers[g].pc \in StagePcs
                  THEN [handlers[g] EXCEPT !.cancelled = TRUE]
                  ELSE handlers[g]]
         /\ lastMsg' = IF tracing # "admission" THEN lastMsg
                       ELSE [kind |-> IF IsText(m) THEN "text" ELSE m.id,
                             checks |-> checks, admitted |-> admitted]
         /\ lastCheck' = IF tracing # "admission" \/ checks = 0 THEN lastCheck
                         ELSE [allowed |-> last.allowed, retryAfter |-> last.retryAfter,
                               called |-> TRUE]
         /\ rlWindow' = IF tracing # "admission" THEN rlWindow
                        ELSE WindowAfterCalls(rlWindow, now, checks)
         /\ LockHistory(h, key, FALSE, res.acq)
         /\ Emit(<<<<"msg", m.id, 0>>>> \o
                 (IF res.reply = "" THEN <<>> ELSE <<<<"send", res.reply, 0>>>>))
  /\ Config

-----------------------------------------------------------------------------
(* Dialogue controller: the title stage (handleTopicInput) *)

ProviderOutcomes == {"ok", "timeout", "error"}

\* After the await of tryAcquireLock: report contention, or store the topic
\* and start the title stage.
TopicLockReturned(h) ==
  LET hd == handlers[h] IN
  /\ hd.pc = "topic_lock"
  /\ IF ~hd.acquired
       THEN /\ conversations' = getConversation(conversations, hd.key, now)
            /\ SetHandler(h, FreeHandler)
            /\ Emit(<<<<"send", "busy", 0>>>>)
       ELSE /\ conversations' = updateConversation(conversations, hd.key,
                                  [topic |-> hd.topic, step |-> "waiting_title_selection"], now)
            /\ SetHandler(h, [hd EXCEPT !.pc = "titles_call"])
            /\ Emit(<<<<"send", "progress", 0>>, <<"titles_call", hd.topic, 0>>>>)
  /\ LockHistory(h, hd.key, FALSE, "none")
  /\ NoAdmission /\ Config

\* contentService.generateTitles settles.  A response without a titles array
\* is stored and then makes formatTitles throw.
TitlesReturned(h, outcome, titles) ==
  LET hd == handlers[h] IN
  /\ hd.pc = "titles_call"
  /\ IF outcome = "ok" /\ titles # NoTitles
       THEN /\ conversations' = updateConversation(conversations, hd.key,
                                  [generatedTitles |-> titles], now)
            /\ SetHandler(h, [hd EXCEPT !.pc = "titles_sent"])
            /\ Emit(<<<<"titles_stored", "", 0>>, <<"send", "titles", 0>>>>)
            /\ LockHistory(h, hd.key, FALSE, "none")
     ELSE IF outcome = "timeout"
       THEN /\ conversations' = conversations
            /\ SetHandler(h, [hd EXCEPT !.pc = "topic_timeout"])
            /\ Emit(<<<<"send", "timeout", 0>>>>)
            /\ LockHistory(h, hd.key, FALSE, "none")
       ELSE /\ conversations' =
                 releaseLock(IF outcome = "ok"
                               THEN updateConversation(conversations, hd.key,
                                      [generatedTitles |-> titles], now)
                               ELSE conversations,
                             hd.key, now)
            /\ SetHandler(h, [hd EXCEPT !.pc = "msg_error"])
            /\ Emit(<<<<"lock_released", "titles", 0>>, <<"send", "error", 0>>>>)
            /\ LockHistory(h, hd.key, TRUE, "none")
  /\ NoAdmission /\ CallFrame(handlers[h], outcome, "titles")

\* After the titles were sent: the finally block.
TitlesSent(h) ==
  LET hd == handlers[h] IN
  /\ hd.pc = "titles_sent"
  /\ conversations' = releaseLock(conversations, hd.key, now)
  /\ SetHandler(h, FreeHandler)
  /\ Emit(<<<<"lock_released", "titles", 0>>>>)
  /\ LockHistory(h, hd.key, TRUE, "none")
  /\ NoAdmission /\ Config

\* After the timeout notice of a stage was sent: reset; handleTopicInput's
\* finally block then calls releaseLock, handleTitleSelection has none.
StageTimeout(h) ==
  LET hd == handlers[h] IN
  /\ hd.pc \in {"topic_timeout", "sel_timeout"}
  /\ conversations' =
       IF hd.pc = "topic_timeout"
         THEN releaseLock(resetConversation(conversations, hd.key), hd.key, now)
         ELSE resetConversation(conversations, hd.key)
  /\ SetHandler(h, FreeHandler)
  /\ Emit(<<<<"reset", hd.pc, 0>>>>)
  /\ LockHistory(h, hd.key, hd.pc = "topic_timeout", "none")
  /\ NoAdmission /\ Config

\* After an error notice was sent (handleMessage's catch) or after the notice
\* of a missing title: resetConversation.
ResetAfterNotice(h) ==
  LET hd == handlers[h] IN
  /\ hd.pc \in {"msg_error", "sel_reset"}
  /\ conversations' = resetConversation(conversations, hd.key)
  /\ SetHandler(h, FreeHandler)
  /\ Emit(<<<<"reset", hd.pc, 0>>>>)
  /\ LockHistory(h, hd.key, FALSE, "none")
  /\ NoAdmission /\ Config

-----------------------------------------------------------------------------
(* Dialogue controller: the outline stage (handleTitleSelection) *)

\* After the await of tryAcquireLock: report contention, or store the
\* selected title and start the outline stage.
SelLockReturned(h) ==
  LET hd == handlers[h] IN
  /\ hd.pc = "sel_lock"
  /\ IF ~hd.acquired
       THEN /\ conversations' = conversations
            /\ SetHandler(h, FreeHandler)
            /\ Emit(<<<<"send", "busy", 0>>>>)
       ELSE /\ conversations' = updateConversation(conversations, hd.key,
                                  [selectedTitle |-> hd.title, step |-> "outline_generated"], now)
            /\ SetHandler(h, [hd EXCEPT !.pc = "outline_call"])
            /\ Emit(<<<<"send", "progress", 0>>, <<"outline_call", "", hd.title>>>>)
  /\ LockHistory(h, hd.key, FALSE, "none")
  /\ NoAdmission /\ Config

\* contentService.generateOutline settles.
OutlineReturned(h, outcome, outline) ==
  LET hd == handlers[h] IN
  /\ hd.pc = "outline_call"
  /\ IF outcome = "ok"
       THEN /\ conversations' = updateConversation(conversations, hd.key,
                                  [generatedOutline |-> outline, step |-> "idle"], now)
            /\ SetHandler(h, [hd EXCEPT !.pc = "outline_summary", !.outline = outline])
            /\ Emit(<<<<"outline_stored", "", hd.title>>, <<"send", "outline_summary", 0>>>>)
            /\ LockHistory(h, hd.key, FALSE, "none")
     ELSE IF outcome = "timeout"
       THEN /\ conversations' = conversations
            /\ SetHandler(h, [hd EXCEPT !.pc = "sel_timeout"])
            /\ Emit(<<<<"send", "timeout", 0>>>>)
            /\ LockHistory(h, hd.key, FALSE, "none")
       ELSE /\ conversations' = releaseLock(conversations, hd.key, now)
            /\ SetHandler(h, [hd EXCEPT !.pc = "msg_error"])
            /\ Emit(<<<<"lock_released", "outline", 0>>, <<"send", "error", 0>>>>)
            /\ LockHistory(h, hd.key, TRUE, "none")
  /\ NoAdmission /\ CallFrame(handlers[h], outcome, "outline")

\* After a summary was sent: sendWebhookWithRetry validates the payload and
\* makes its first transmission attempt.
SummarySent(h) ==
  LET hd == handlers[h] IN
  /\ hd.pc \in {"outline_summary", "article_summary"}
  /\ SetHandler(h, [hd EXCEPT !.pc = IF hd.pc = "outline_summary"
                                       THEN "outline_webhook" ELSE "article_webhook",
                              !.attempt = 0])
  /\ Emit(<<<<"deliver_start", hd.pc, 0>>>>)
  /\ UNCHANGED <<conversations, lockWinners, lastAcq, reclaimed>>
  /\ NoAdmission /\ Config

\* An outline-to-article chain that asks for the article lock while it still
\* holds the outline lock.
afterOutlineDelivery_keepsLock(h, hd, evs) ==
  LET r == tryAcquireLock(conversations, hd.key, "article", now)
  IN  /\ conversations' = r.convs
      /\ SetHandler(h, [hd EXCEPT !.pc = "article_lock", !.acquired = r.ok, !.attempt = 0])
      /\ Emit(evs)
      /\ LockHistory(h, hd.key, FALSE, AcqOf(r))

\* The end of the outline delivery: releaseLock, then generateArticle up to
\* the await of its tryAcquireLock.
afterOutlineDelivery(h, hd, evs) ==
  LET r == tryAcquireLock(releaseLock(conversations, hd.key, now), hd.key, "article", now)
  IN  /\ conversations' = r.convs
      /\ SetHandler(h, [hd EXCEPT !.pc = "article_lock", !.acquired = r.ok, !.attempt = 0])
      /\ Emit(evs \o <<<<"lock_released", "outline", 0>>>>)
      /\ LockHistory(h, hd.key, TRUE, AcqOf(r))

\* An end of the article stage without the finally block.
afterArticleDelivery_keepsLock(h, hd, evs) ==
  /\ conversations' = conversations
  /\ SetHandler(h, FreeHandler)
  /\ Emit(evs)
  /\ LockHistory(h, hd.key, FALSE, "none")

\* The end of the article delivery: the finally block of generateArticle.
afterArticleDelivery(h, hd, evs) ==
  /\ conversations' = releaseLock(conversations, hd.key, now)
  /\ SetHandler(h, FreeHandler)
  /\ Emit(evs \o <<<<"lock_released", "article", 0>>>>)
  /\ LockHistory(h, hd.key, TRUE, "none")

\* One transmission attempt of withRetry settles: attempts 0..maxRetries.
WebhookAttempt(h, ok) ==
  LET hd == handlers[h]
      what == IF hd.pc = "outline_webhook" THEN "outline" ELSE "article"
  IN
  /\ hd.pc \in {"outline_webhook", "article_webhook"}
  /\ IF ok
       THEN /\ IF hd.pc = "outline_webhook"
                 THEN afterOutlineDelivery(h, hd, <<<<"delivered", what, 0>>>>)
                 ELSE afterArticleDelivery(h, hd, <<<<"delivered", what, 0>>>>)
     ELSE IF hd.attempt < webhookMaxRetries
       THEN /\ SetHandler(h, [hd EXCEPT !.attempt = @ + 1])
            /\ Emit(<<<<"deliver_failed", what, 0>>>>)
            /\ UNCHANGED <<conversations, lockWinners, lastAcq, reclaimed>>
       ELSE /\ SetHandler(h, [hd EXCEPT !.pc = IF hd.pc = "outline_webhook"
                                                 THEN "outline_notify" ELSE "article_notify"])
            /\ Emit(<<<<"deliver_failed", what, 0>>, <<"send", "delivery_failed", 0>>>>)
            /\ UNCHANGED <<conversations, lockWinners, lastAcq, reclaimed>>
  /\ NoAdmission /\ Config

\* A catch block of the failure notice that passes the failure on.
notifyFailure_rethrows(sent) == IF sent THEN "returned" ELSE "thrown"

\* The failure notice of sendWebhookWithRetry: telegramService.sendMessage
\* answers true or false and does not throw, and the catch block around the
\* notice only logs, so sendWebhookWithRetry returns either way.
notifyFailure(sent) == "returned"

\* After the delivery-failure notice settled (sent or not),
\* sendWebhookWithRetry returns to the stage; an exception would instead reach
\* the catch block of the stage.
NotifySent(h, sent) ==
  LET hd == handlers[h] IN
  /\ hd.pc \in {"outline_notify", "article_notify"}
  /\ IF notifyFailure(sent) = "returned"
       THEN IF hd.pc = "outline_notify"
              THEN afterOutlineDelivery(h, hd, <<>>)
              ELSE afterArticleDelivery(h, hd, <<>>)
     ELSE IF hd.pc = "outline_notify"
       THEN /\ conversations' = releaseLock(conversations, hd.key, now)
            /\ SetHandler(h, [hd EXCEPT !.pc = "msg_error"])
            /\ Emit(<<<<"lock_released", "outline", 0>>, <<"send", "error", 0>>>>)
            /\ LockHistory(h, hd.key, TRUE, "none")
       ELSE /\ conversations' = conversations
            /\ SetHandler(h, [hd EXCEPT !.pc = "article_err"])
            /\ Emit(<<<<"send", "article_error", 0>>>>)
            /\ LockHistory(h, hd.key, FALSE, "none")
  /\ NoAdmission /\ Config

-----------------------------------------------------------------------------
(* Dialogue controller: the article stage (generateArticle) *)

\* After the await of tryAcquireLock: report contention, or announce the
\* article and call contentService.generateArticle, which validates the
\* outline before it calls the provider.
ArticleLockReturned(h) ==
  LET hd == handlers[h] IN
  /\ hd.pc = "article_lock"
  /\ IF ~hd.acquired
       THEN /\ conversations' = getConversation(conversations, hd.key, now)
            /\ SetHandler(h, FreeHandler)
            /\ Emit(<<<<"send", "busy", 0>>>>)
     ELSE IF ~validateOutline(hd.outline)
       THEN /\ conversations' = conversations
            /\ SetHandler(h, [hd EXCEPT !.pc = "article_err"])
            /\ Emit(<<<<"send", "article_start", 0>>, <<"send", "article_error", 0>>>>)
       ELSE /\ conversations' = conversations
            /\ SetHandler(h, [hd EXCEPT !.pc = "article_call"])
            /\ Emit(<<<<"send", "article_start", 0>>, <<"article_call", "", hd.title>>>>)
  /\ LockHistory(h, hd.key, FALSE, "none")
  /\ NoAdmission /\ Config

\* contentService.generateArticle settles.
ArticleReturned(h, outcome) ==
  LET hd == handlers[h] IN
  /\ hd.pc = "article_call"
  /\ IF outcome = "ok"
       THEN /\ SetHandler(h, [hd EXCEPT !.pc = "article_summary"])
            /\ Emit(<<<<"article_done", "", hd.title>>, <<"send", "article_summary", 0>>>>)
       ELSE /\ SetHandler(h, [hd EXCEPT !.pc = "article_err"])
            /\ Emit(<<<<"send", IF outcome = "timeout" THEN "timeout" ELSE "article_error", 0>>>>)
  /\ UNCHANGED <<conversations, lockWinners, lastAcq, reclaimed>>
  /\ NoAdmission /\ CallFrame(handlers[h], outcome, "article")

\* After the error notice of the article stage was sent: the finally block.
ArticleFailed(h) ==
  LET hd == handlers[h] IN
  /\ hd.pc = "article_err"
  /\ afterArticleDelivery(h, hd, <<>>)
  /\ NoAdmission /\ Config

-----------------------------------------------------------------------------
(* Provider calls that outlive their timeout *)

\* A late result that is stored as the result of its stage.
lateResult_applied(cs, o) ==
  updateConversation(cs, o.key,
                     [step |-> IF o.stage = "titles" THEN "waiting_title_selection"
                               ELSE "idle"], 0)

\* What the result of a call that lost the race does to the store: nothing.
\* Promise.race has settled with the timer's rejection, and the promise of
\* the call has no other continuation.
lateResult(cs, o) == cs

\* The underlying call of a timed-out provider call completes.
LateCompletion(o) ==
  /\ o \in orphans /\ ~o.settled
  /\ orphans' = (orphans \ {o}) \cup {[o EXCEPT !.settled = TRUE]}
  /\ conversations' = lateResult(conversations, o)
  /\ UNCHANGED <<locks, limits, now, botMode, rateEnabled, handlers, lastCheck, lastMsg,
                 lastAcq, reclaimed, lockWinners, rlWindow, tracing, events, aiConfig,
                 router, rateLimitConfig, timeoutReport,
              botManager, uncleaned>>

-----------------------------------------------------------------------------
(* Timers *)

\* cleanupOldLockPromises: prunes the lock promises older than the threshold.
cleanupOldLockPromises(lk, t) ==
  [k \in {x \in DOMAIN lk : ~(t - lk[x] > lockPromiseTimeoutMs)} |-> lk[k]]

FirstDue(from, period) == ((from \div period) + 1) * period

\* The conversation manager's timer fires at every multiple of sweepInterval
\* in (from, to], in order.
RECURSIVE RunSweeps(_, _, _, _)
RunSweeps(st, from, to, rec) ==
  LET t == FirstDue(from, sweepInterval)
  IN  IF t > to THEN [convs |-> st, reclaimed |-> rec]
      ELSE RunSweeps(cleanupInterval(st, t), t, to,
                     rec \cup {k \in DOMAIN cleanup(st, t) : IsStale(st[k], t)})

\* The rate limiter's timer fires at every multiple of rlCleanupInterval in
\* (from, to], in order.
RECURSIVE RunRlCleanups(_, _, _)
RunRlCleanups(lim, from, to) ==
  LET t == FirstDue(from, rlCleanupInterval)
  IN  IF t > to THEN lim ELSE RunRlCleanups(rlCleanup(lim, t), t, to)

\* Time passes by d milliseconds while no handler runs; the timers that fall
\* due in the meantime fire.
AdvanceTime(d, max) ==
  /\ now + d <= max
  /\ now' = now + d
  /\ LET sw == RunSweeps(conversations, now, now + d, {})
     IN  /\ conversations' = sw.convs
         /\ reclaimed' = IF tracing # "lock" THEN reclaimed ELSE reclaimed \cup sw.reclaimed
         /\ lockWinners' = {w \in lockWinners : w[2] \notin sw.reclaimed}
  /\ limits' = RunRlCleanups(limits, now, now + d)
  /\ locks' = cleanupOldLockPromises(locks, FirstDue(now, sweepInterval))
  /\ UNCHANGED <<botMode, rateEnabled, tracing, handlers, lastCheck, lastMsg,
                 lastAcq, rlWindow, events, aiConfig, router, orphans,
                 rateLimitConfig, timeoutReport,
              botManager, uncleaned>>

-----------------------------------------------------------------------------
(* AIRouter: one generateJSON request, from the primary provider's first
   invocation to the response or the thrown error *)

primaryRetryDelayMs == 2000    \* delay before the primary's retry
backupMaxRetries == 3          \* attempts of tryProviderWithRetry for the backup

Providers == {"claude", "openrouter"}
Other(provider) == IF provider = "claude" THEN "openrouter" ELSE "claude"

\* The substrings that classify an error message as transient.
TransientMarkers ==
  {"connection", "terminated", "socket", "rate limit", "429", "500", "502", "503"}

\* An error: its message, the classifier substrings the lower-cased message
\* contains, and for the combined error the two messages embedded in it.
Error(msg, marks, parts) == [msg |-> msg, marks |-> marks, parts |-> parts]
NoError == Error("", {}, <<>>)

\* The errors a provider client throws: timeout, network, upstream status,
\* unparsable response.
ProviderErrors(provider) ==
  IF provider = "claude"
    THEN { Error("Claude API timeout after 180s", {}, <<>>),
           Error("Claude API error: Connection error.", {"connection"}, <<>>),
           Error("Invalid JSON response from Claude", {}, <<>>) }
    ELSE { Error("OpenRouter API timeout after 180s", {}, <<>>),
           Error("OpenRouter API error: 503", {"503"}, <<>>),
           Error("Invalid JSON response from OpenRouter", {}, <<>>) }

isTransientError(e) == e.marks \cap TransientMarkers # {}

ProviderLabel(provider) == IF provider = "claude" THEN "Claude" ELSE "OpenRouter"

\* The classifier substrings that are numbers.
NumericMarkers == {429, 500, 502, 503}

\* The digits of the fraction of timeoutMs / 1000 as JavaScript prints them:
\* up to three, without trailing zeros.
fractionText(f) ==
  IF f % 100 = 0 THEN ToString(f \div 100)
  ELSE IF f % 10 = 0 THEN ToString(f \div 100) \o ToString((f \div 10) % 10)
  ELSE ToString(f \div 100) \o ToString((f \div 10) % 10) \o ToString(f % 10)

\* `${timeoutMs / 1000}`
secondsText(timeoutMs) ==
  IF timeoutMs % 1000 = 0 THEN ToString(timeoutMs \div 1000)
  ELSE ToString(timeoutMs \div 1000) \o "." \o fractionText(timeoutMs % 1000)

\* Whether secondsText(timeoutMs) contains the three digits of n, n in 100..999:
\* in its whole part, or as its whole fraction.
secondsShows(timeoutMs, n) ==
  \/ \E k \in 0..3 : ((timeoutMs \div 1000) \div (10 ^ k)) % 1000 = n
  \/ timeoutMs % 1000 = n /\ n % 10 # 0

\* The error of a call that lost the race against its timer of timeoutMs.
timeoutError(provider, timeoutMs) ==
  Error(ProviderLabel(provider) \o " API timeout after " \o secondsText(timeoutMs) \o "s",
        {ToString(n) : n \in {x \in NumericMarkers : secondsShows(timeoutMs, x)}},
        <<>>)

\* The error of a call answered with an HTTP error status.  The Anthropic
\* client's message starts with the status; OpenRouterService builds its own.
statusError(provider, status) ==
  Error(IF provider = "claude"
          THEN "Claude API error: " \o ToString(status) \o " status code (no body)"
          ELSE "OpenRouter API error: " \o ToString(status),
        {ToString(n) : n \in NumericMarkers \cap {status}},
        <<>>)

\* Connection resets and socket terminations as the clients report them.
networkErrors(provider) ==
  IF provider = "claude"
    THEN { Error("Claude API error: Connection error.", {"connection"}, <<>>) }
    ELSE { Error("OpenRouter request error: terminated", {"terminated"}, <<>>),
           Error("OpenRouter request error: socket hang up", {"socket"}, <<>>) }

\* The errors of parseJSONResponse.
parseErrors(provider) ==
  IF provider = "claude"
    THEN { Error("Invalid JSON response from Claude", {}, <<>>) }
    ELSE { Error("Invalid JSON response from OpenRouter", {}, <<>>),
           Error("No valid JSON found in response", {}, <<>>) }

Statuses == {400, 429, 500, 502, 503, 504, 529}
TimeoutValues == {1000, 1429, 180000, 360000, 500000, 600000, 3600000}

\* The failures of a first invocation, over statuses and configured timeouts.
FirstAttemptErrors(provider) ==
  networkErrors(provider) \cup parseErrors(provider)
    \cup {statusError(provider, st) : st \in Statuses}
    \cup {timeoutError(provider, ms) : ms \in TimeoutValues}

\* A primary that never retries.
shouldRetryPrimary_never(attempt, e) == FALSE

\* tryPrimaryProvider's catch: retry on a transient error of the first attempt.
shouldRetryPrimary(attempt, e) == attempt = 1 /\ isTransientError(e)

\* A backup with one attempt more.
backupAttemptLeft_oneMore(attempt) == attempt < backupMaxRetries + 1

\* tryProviderWithRetry's catch: another attempt is left.
backupAttemptLeft(attempt) == attempt < backupMaxRetries

\* Math.pow(2, attempt) * 1000
backupDelayMs(attempt) == (2 ^ attempt) * 1000

\* A combined error that only embeds the backup's message.
combinedError_backupOnly(primaryProvider, primaryError, backupProvider, backupError) ==
  Error("All AI providers failed.", {}, <<backupError.msg, backupError.msg>>)

combinedError(primaryProvider, primaryError, backupProvider, backupError) ==
  Error("All AI providers failed.", {}, <<primaryError.msg, backupError.msg>>)

\* The data a provider invocation returned, named after the invocation.
Data(provider, attempt) == [provider |-> provider, attempt |-> attempt]
NoResult == [data |-> Data("", 0), provider |-> ""]

primaryResponse(r, data) == [data |-> data, provider |-> r.primary]
\* A backup response tagged with the primary.
backupResponse_taggedPrimary(r, data) == [data |-> data, provider |-> r.primary]

backupResponse(r, data) == [data |-> data, provider |-> r.backup]

IdleRouter ==
  [pc |-> "idle", primary |-> "", backup |-> "", attempt |-> 0, clock |-> 0,
   calls |-> <<>>, outcomes |-> <<>>, primaryError |-> NoError,
   backupRead |-> FALSE, backupAIAtStart |-> FALSE, result |-> NoResult,
   thrown |-> NoError]

Call(provider, attempt, at) == [provider |-> provider, attempt |-> attempt, at |-> at]
Outcome(provider, attempt, ok, err, at) ==
  [provider |-> provider, attempt |-> attempt, ok |-> ok, err |-> err, at |-> at]

RouterFrame ==
  UNCHANGED <<conversations, locks, limits, now, botMode, rateEnabled, handlers,
              lastCheck, lastMsg, lastAcq, reclaimed, lockWinners, rlWindow,
              tracing, events, orphans, rateLimitConfig, timeoutReport,
              botManager, uncleaned>>

\* generateJSON up to the first await: the providers are read from the
\* config and the primary is invoked.
generateJSON ==
  /\ router.pc = "idle"
  /\ router' = [IdleRouter EXCEPT !.pc = "primary_call",
                                  !.primary = aiConfig.defaultProvider,
                                  !.backup = Other(aiConfig.defaultProvider),
                                  !.attempt = 1,
                                  !.backupAIAtStart = aiConfig.backupAI,
                                  !.calls = <<Call(aiConfig.defaultProvider, 1, 0)>>]
  /\ UNCHANGED aiConfig /\ RouterFrame

\* A failover that waits before the backup's first invocation.
failover_delayed(r, e) ==
  IF aiConfig.backupAI
    THEN [r EXCEPT !.pc = "backup_call", !.primaryError = e, !.backupRead = TRUE,
                   !.attempt = 1,
                   !.clock = @ + primaryRetryDelayMs,
                   !.calls = Append(@, Call(r.backup, 1, r.clock + primaryRetryDelayMs))]
    ELSE [r EXCEPT !.pc = "thrown", !.primaryError = e, !.thrown = e]

\* The failover decision of generateJSON once the primary path has thrown e:
\* config.ai.backupAI is read at this point.
failover(r, e) ==
  IF aiConfig.backupAI
    THEN [r EXCEPT !.pc = "backup_call", !.primaryError = e, !.backupRead = TRUE,
                   !.attempt = 1,
                   !.calls = Append(@, Call(r.backup, 1, r.clock))]
    ELSE [r EXCEPT !.pc = "thrown", !.primaryError = e, !.thrown = e]

\* An invocation of the primary settles after d milliseconds.
PrimarySettles(ok, e, d) ==
  /\ router.pc = "primary_call"
  /\ LET t == router.clock + d
         r == [router EXCEPT !.clock = t,
                             !.outcomes = Append(@, Outcome(router.primary, router.attempt,
                                                            ok, IF ok THEN NoError ELSE e, t))]
     IN  router' =
           IF ok
             THEN [r EXCEPT !.pc = "returned",
                            !.result = primaryResponse(r, Data(r.primary, r.attempt))]
           ELSE IF shouldRetryPrimary(r.attempt, e)
             THEN [r EXCEPT !.pc = "primary_wait"]
             ELSE failover(r, e)
  /\ UNCHANGED aiConfig /\ RouterFrame

\* The timer of the primary's retry fires: the second invocation.
PrimaryRetry ==
  /\ router.pc = "primary_wait"
  /\ router' = [router EXCEPT !.pc = "primary_call",
                              !.clock = @ + primaryRetryDelayMs,
                              !.attempt = @ + 1,
                              !.calls = Append(@, Call(router.primary, router.attempt + 1,
                                                       router.clock + primaryRetryDelayMs))]
  /\ UNCHANGED aiConfig /\ RouterFrame

\* An invocation of the backup settles after d milliseconds.
BackupSettles(ok, e, d) ==
  /\ router.pc = "backup_call"
  /\ LET t == router.clock + d
         r == [router EXCEPT !.clock = t,
                             !.outcomes = Append(@, Outcome(router.backup, router.attempt,
                                                            ok, IF ok THEN NoError ELSE e, t))]
     IN  router' =
           IF ok
             THEN [r EXCEPT !.pc = "returned",
                            !.result = backupResponse(r, Data(r.backup, r.attempt))]
           ELSE IF backupAttemptLeft(r.attempt)
             THEN [r EXCEPT !.pc = "backup_wait"]
             ELSE [r EXCEPT !.pc = "thrown",
                            !.thrown = combinedError(r.primary, r.primaryError, r.backup, e)]
  /\ UNCHANGED aiConfig /\ RouterFrame

\* The backoff timer of the backup fires: the next invocation.
BackupRetry ==
  /\ router.pc = "backup_wait"
  /\ LET t == router.clock + backupDelayMs(router.attempt)
     IN  router' = [router EXCEPT !.pc = "backup_call",
                                  !.clock = t,
                                  !.attempt = @ + 1,
                                  !.calls = Append(@, Call(router.backup, router.attempt + 1, t))]
  /\ UNCHANGED aiConfig /\ RouterFrame

\* The caller has taken the response or the error; the router is ready for
\* the next request.
RequestOver ==
  /\ router.pc \in {"returned", "thrown"}
  /\ router' = IdleRouter
  /\ UNCHANGED aiConfig /\ RouterFrame

\* The config UI changes config.ai while a request may be in progress.
updateConfig(provider, backupAI) ==
  /\ aiConfig' = [defaultProvider |-> provider, backupAI |-> backupAI]
  /\ aiConfig' # aiConfig
  /\ UNCHANGED router /\ RouterFrame

CallDurations == {0, 700}

RouterStep ==
  \/ \E ok \in BOOLEAN, e \in ProviderErrors(router.primary), d \in CallDurations :
       PrimarySettles(ok, e, d)
  \/ PrimaryRetry
  \/ \E ok \in BOOLEAN, e \in ProviderErrors(router.backup), d \in CallDurations :
       BackupSettles(ok, e, d)
  \/ BackupRetry

-----------------------------------------------------------------------------
(* The lock interface of the store, driven by callers that await
   tryAcquireLock and call releaseLock when they hold the lock *)

LockTasks == {"titles", "outline"}

\* A caller invokes tryAcquireLock; its await has not resumed yet.
LockCall(h, u, c, task) ==
  /\ handlers[h].pc = "free"
  /\ LET key == getKey(u, c)
         r == tryAcquireLock(conversations, key, task, now)
     IN  /\ conversations' = r.convs
         /\ SetHandler(h, [FreeHandler EXCEPT !.pc = "lock_called", !.key = key,
                                              !.acquired = r.ok])
         /\ LockHistory(h, key, FALSE, AcqOf(r))
  /\ UNCHANGED events /\ NoAdmission /\ Config

\* The await resumes: the winner goes on holding the lock, the loser leaves.
LockResumed(h) ==
  /\ handlers[h].pc = "lock_called"
  /\ SetHandler(h, IF handlers[h].acquired
                     THEN [handlers[h] EXCEPT !.pc = "lock_held"]
                     ELSE FreeHandler)
  /\ UNCHANGED <<conversations, lockWinners, lastAcq, reclaimed, events>>
  /\ NoAdmission /\ Config

\* The holder calls releaseLock.
LockRelease(h) ==
  /\ handlers[h].pc = "lock_held"
  /\ conversations' = releaseLock(conversations, handlers[h].key, now)
  /\ SetHandler(h, FreeHandler)
  /\ LockHistory(h, handlers[h].key, TRUE, "none")
  /\ UNCHANGED events /\ NoAdmission /\ Config

LockSteps ==
  \/ \E h \in Slots, u \in Users, c \in Chats, task \in LockTasks : LockCall(h, u, c, task)
  \/ \E h \in Slots : LockResumed(h)
  \/ \E h \in Slots : LockRelease(h)

-----------------------------------------------------------------------------
(* The system: overlapping handlers, inbound updates in any order *)

\* The timeouts of the default config, and other settings that updateConfig
\* accepts: all four equal, only aiRequestTimeout set, and 90 seconds.
Timeouts(request, title, outline, article) ==
  [aiRequestTimeout |-> request, aiTitleTimeout |-> title,
   aiOutlineTimeout |-> outline, aiArticleTimeout |-> article]

DefaultTimeouts == Timeouts(600000, 180000, 360000, 600000)

TimeoutConfigs ==
  { DefaultTimeouts,
    Timeouts(600000, 600000, 600000, 600000),
    Timeouts(120000, 0, 0, 0),
    Timeouts(90000, 90000, 90000, 90000) }

-----------------------------------------------------------------------------
(* BotManager and TelegramService: the bot instances and restartBot.  A
   restartBot call is stopBot, a wait on a timer, then startBot; each action
   is one synchronous segment of a call, between two awaits. *)

MaxBots == 3              \* TelegramBot instances created in a run

\* The restartBot calls the config UI can have in progress at once.
Restarters == {1, 2}

\* The state after start(): setHandlerSetup(setupPollingHandlers), then
\* startBot created bot 1, authenticated it and attached the handlers once.
\* bot and serviceBot are 0 for null; listeners counts the 'message'
\* listeners of each instance; a restartBot call has its position and the bot
\* its pending await was called on.
StartedManager ==
  [bot |-> 1, serviceBot |-> 1, isInitialized |-> TRUE, created |-> 1,
   polling |-> {1},
   listeners |-> [b \in 1..MaxBots |-> IF b = 1 THEN 1 ELSE 0],
   calls |-> [r \in Restarters |-> [pc |-> "idle", target |-> 0]]]

BotFrame ==
  UNCHANGED <<conversations, locks, limits, now, botMode, rateEnabled, handlers,
              lastCheck, lastMsg, lastAcq, reclaimed, lockWinners, rlWindow,
              tracing, events, aiConfig, router, orphans, rateLimitConfig,
              timeoutReport, uncleaned>>

\* restartBot up to its first await.  stopBot returns at once when there is
\* no bot, and the call goes on to wait on its timer; otherwise it awaits
\* stopPolling of the current bot.
restartBot(r) ==
  LET bm == botManager IN
  /\ bm.calls[r].pc = "idle"
  /\ bm.created
       + Cardinality({q \in Restarters : bm.calls[q].pc \in {"stopping", "waiting"}})
     < MaxBots
  /\ botManager' =
       IF bm.bot = 0
         THEN [bm EXCEPT !.calls[r] = [pc |-> "waiting", target |-> 0]]
         ELSE [bm EXCEPT !.calls[r] = [pc |-> "stopping", target |-> bm.bot]]
  /\ BotFrame

\* stopBot after stopPolling settled: both references to the bot are cleared;
\* restartBot then waits on its timer.
stopBot(r) ==
  LET bm == botManager IN
  /\ bm.calls[r].pc = "stopping"
  /\ botManager' = [bm EXCEPT !.polling = @ \ {bm.calls[r].target},
                              !.bot = 0,
                              !.isInitialized = FALSE,
                              !.serviceBot = 0,
                              !.calls[r] = [pc |-> "waiting", target |-> 0]]
  /\ BotFrame

\* The timer fired: startBot up to the await of getMe.  telegramService.init
\* returns the bot it already has, or creates one (polling mode).
startBot(r) ==
  LET bm == botManager
      fresh == bm.created + 1
  IN  /\ bm.calls[r].pc = "waiting"
      /\ botManager' =
           IF bm.serviceBot # 0
             THEN [bm EXCEPT !.bot = bm.serviceBot,
                             !.calls[r] = [pc |-> "auth", target |-> bm.serviceBot]]
             ELSE [bm EXCEPT !.bot = fresh,
                             !.serviceBot = fresh,
                             !.created = fresh,
                             !.polling = @ \cup {fresh},
                             !.calls[r] = [pc |-> "auth", target |-> fresh]]
      /\ BotFrame

\* getMe settled: on success the handler setup is called with the bot the
\* manager holds now, if it holds one; on failure the manager drops its bot.
authenticated(r, ok) ==
  LET bm == botManager IN
  /\ bm.calls[r].pc = "auth"
  /\ botManager' =
       IF ~ok
         THEN [bm EXCEPT !.bot = 0, !.isInitialized = FALSE,
                         !.calls[r] = [pc |-> "idle", target |-> 0]]
       ELSE IF bm.bot # 0
         THEN [bm EXCEPT !.isInitialized = TRUE,
                         !.listeners[bm.bot] = @ + 1,
                         !.calls[r] = [pc |-> "idle", target |-> 0]]
         ELSE [bm EXCEPT !.isInitialized = TRUE, !.calls[r] = [pc |-> "idle", target |-> 0]]
  /\ BotFrame

InitStore ==
  /\ botManager = StartedManager
  /\ conversations = EmptyMap
  /\ locks = EmptyMap
  /\ limits = EmptyMap
  /\ uncleaned = [limits |-> EmptyMap, calls |-> <<>>, afterEviction |-> FALSE]
  /\ now = 0
  /\ handlers = [h \in Slots |-> FreeHandler]
  /\ lastCheck = [allowed |-> TRUE, retryAfter |-> 0, called |-> FALSE]
  /\ lastMsg = [kind |-> "none", checks |-> 0, admitted |-> TRUE]
  /\ lastAcq = [ok |-> FALSE, key |-> getKey("u1", 7), called |-> FALSE,
                afterReclaim |-> FALSE]
  /\ reclaimed = {}
  /\ lockWinners = {}
  /\ rlWindow = [start |-> 0, calls |-> 0]
  /\ events = <<>>
  /\ aiConfig = [defaultProvider |-> "claude", backupAI |-> TRUE]
  /\ router = IdleRouter
  /\ orphans = {}
  /\ timeoutReport = NoReport

InitCommon ==
  /\ rateLimitConfig = DefaultTimeouts
  /\ InitStore

Init ==
  /\ InitCommon
  /\ botMode = "polling"
  /\ rateEnabled = FALSE
  /\ tracing = "none"

\* A wait after which every lock taken before it is stale at the next sweep.
LongWait == lockTimeoutMs + sweepInterval

HandlerStep(h) ==
  \/ TopicLockReturned(h)
  \/ \E o \in ProviderOutcomes, ts \in TitleResponses : TitlesReturned(h, o, ts)
  \/ TitlesSent(h)
  \/ StageTimeout(h)
  \/ ResetAfterNotice(h)
  \/ SelLockReturned(h)
  \/ \E o \in ProviderOutcomes, ol \in OutlineResponses : OutlineReturned(h, o, ol)
  \/ SummarySent(h)
  \/ \E ok \in BOOLEAN : WebhookAttempt(h, ok)
  \/ \E sent \in BOOLEAN : NotifySent(h, sent)
  \/ ArticleLockReturned(h)
  \/ \E o \in ProviderOutcomes : ArticleReturned(h, o)
  \/ ArticleFailed(h)

Next ==
  \/ \E h \in Slots, u \in Users, c \in Chats, m \in Messages : Receive(h, u, c, m)
  \/ \E h \in Slots : HandlerStep(h)
  \/ AdvanceTime(LongWait, MaxTicks * LongWait)

Spec == Init /\ [][Next]_vars

\* The system without the passage of time, every started handler running on:
\* provider calls, deliveries and sends all settle.
NextFair ==
  \/ \E h \in Slots, u \in Users, c \in Chats, m \in Messages : Receive(h, u, c, m)
  \/ \E h \in Slots : HandlerStep(h)

FairSpec == Init /\ [][NextFair]_vars /\ \A h \in Slots : WF_vars(HandlerStep(h))

\* Callers of the lock interface within a few milliseconds of each other.
InitLock ==
  /\ InitCommon
  /\ botMode = "polling"
  /\ rateEnabled = FALSE
  /\ tracing = "lock"

NextLock ==
  \/ LockSteps
  \/ AdvanceTime(1, MaxLockTime)

SpecLock == InitLock /\ [][NextLock]_vars

\* Callers of the lock interface over several periods of the sweep timer.
NextSweep ==
  \/ LockSteps
  \/ AdvanceTime(sweepInterval, MaxSweeps * sweepInterval)

SpecSweep == InitLock /\ [][NextSweep]_vars

\* One user's dialogue with provider calls that can outlast the lock
\* threshold, under the sweep timer, with the history of the lock.
NextReclaim ==
  \/ \E u \in Users, c \in Chats, m \in Messages : Receive(1, u, c, m)
  \/ HandlerStep(1)
  \/ AdvanceTime(LongWait, MaxTicks * LongWait)

SpecReclaim == InitLock /\ [][NextReclaim]_vars

\* Admission: updates that are answered at once, in both bot modes, with the
\* clock moving to either side of the window's end.
AdmissionMessages == Commands \cup {m \in Texts : m.id = "abc"}
RLSteps == {20000, 39999}

InitRL ==
  /\ InitCommon
  /\ botMode \in {"polling", "webhook"}
  /\ rateEnabled \in BOOLEAN
  /\ tracing = "admission"

NextRL ==
  \/ \E u \in Users, c \in Chats, m \in AdmissionMessages : Receive(1, u, c, m)
  \/ \E d \in RLSteps : AdvanceTime(d, MaxRLTime)

SpecRL == InitRL /\ [][NextRL]_vars

\* One user, one update at a time: each update is handled to its end before
\* the next one arrives.
InitRun ==
  /\ InitCommon
  /\ botMode = "polling"
  /\ rateEnabled = FALSE
  /\ tracing = "run"

NextRun ==
  \/ \E u \in Users, c \in Chats, m \in Messages : Receive(1, u, c, m)
  \/ HandlerStep(1)

SpecRun == InitRun /\ [][NextRun]_vars

\* The same, with every pending await of the handler resumed eventually.
FairRun == SpecRun /\ WF_vars(HandlerStep(1))

\* Requests to the router, one at a time, with the config changing under
\* them; every invocation settles and every timer fires.
NextRouter ==
  \/ generateJSON
  \/ RouterStep
  \/ RequestOver
  \/ \E p \in Providers, b \in BOOLEAN : updateConfig(p, b)

SpecRouter == Init /\ [][NextRouter]_vars /\ WF_vars(RouterStep)

\* Requests whose first invocation fails in each way a provider client
\* reports, for several statuses and configured timeouts.
ClassifyStep ==
  \/ \E ok \in BOOLEAN,
        e \in IF router.attempt = 1 THEN FirstAttemptErrors(router.primary)
               ELSE parseErrors(router.primary) :
       PrimarySettles(ok, e, 0)
  \/ PrimaryRetry
  \/ \E ok \in BOOLEAN, e \in parseErrors(router.backup) : BackupSettles(ok, e, 0)
  \/ BackupRetry

NextClassify ==
  \/ generateJSON
  \/ ClassifyStep
  \/ RequestOver
  \/ \E p \in Providers, b \in BOOLEAN : updateConfig(p, b)

SpecClassify == Init /\ [][NextClassify]_vars

\* One user, one update at a time, with texts at the edges of the input
\* validation and outlines that are malformed in each way.
InputTexts ==
  Texts \cup
  { Text("<ZWSP><ZWSP>", 2, 2, TRUE, 0),
    Text("abcd", 4, 0, TRUE, 0),
    Text("abcde", 5, 0, TRUE, 0),
    Text("abc<ZWSP>d", 5, 1, TRUE, 0),
    Text("a...(200)", 200, 0, TRUE, 0),
    Text("a...(201)", 201, 0, TRUE, 0),
    Text("0", 1, 0, FALSE, 0),
    Text("10", 2, 0, FALSE, 10),
    Text("3abc", 4, 0, FALSE, 3) }

MalformedOutlines ==
  { Outline(FALSE, TRUE, TRUE, <<TRUE, TRUE, TRUE>>),
    Outline(TRUE, FALSE, TRUE, <<TRUE, TRUE, TRUE>>),
    Outline(TRUE, TRUE, FALSE, <<TRUE, TRUE, TRUE>>),
    Outline(TRUE, TRUE, TRUE, <<TRUE, FALSE, TRUE>>),
    Outline(TRUE, TRUE, TRUE, <<>>) }

NextInput ==
  \/ \E u \in Users, c \in Chats, m \in InputTexts \cup Commands : Receive(1, u, c, m)
  \/ HandlerStep(1)
  \/ \E ol \in MalformedOutlines : OutlineReturned(1, "ok", ol)

SpecInput == InitRun /\ [][NextInput]_vars

\* The dialogue with the provider calls that lost the race of withTimeout
\* completing later, at any moment.
InitTimeout ==
  /\ InitStore
  /\ rateLimitConfig \in TimeoutConfigs
  /\ botMode = "polling"
  /\ rateEnabled = FALSE
  /\ tracing = "timeout"

NextTimeout ==
  \/ \E u \in Users, c \in Chats, m \in Messages : Receive(1, u, c, m)
  \/ HandlerStep(1)
  \/ \E o \in orphans : LateCompletion(o)

SpecTimeout == InitTimeout /\ [][NextTimeout]_vars

\* The config UI changing the bot token, each change starting a restartBot
\* in the background.
NextRestart ==
  \/ \E r \in Restarters : restartBot(r)
  \/ \E r \in Restarters : stopBot(r)
  \/ \E r \in Restarters : startBot(r)
  \/ \E r \in Restarters, ok \in BOOLEAN : authenticated(r, ok)

SpecRestart == Init /\ [][NextRestart]_vars

TypeOK ==
  /\ DOMAIN conversations \subseteq (Users \X Chats)
  /\ \A k \in DOMAIN conversations :
        conversations[k].step \in
          {"idle", "waiting_topic", "waiting_title_selection", "outline_generated"}
  /\ locks = EmptyMap

-----------------------------------------------------------------------------
(* Properties *)

Keys == {getKey(u, c) : u \in Users, c \in Chats}

LockHeldFor(key) == key \in DOMAIN conversations /\ conversations[key].isProcessing

\* C1: of the tryAcquireLock calls made for one conversation, at most one has
\* returned true since releaseLock was last called for it: two concurrent
\* calls have one winner, and every later call loses until the release.
C1_OneWinner ==
  \A k \in Keys :
    /\ Cardinality(WinnersOf(k)) <= 1
    /\ (WinnersOf(k) # {}) => LockHeldFor(k)

\* Two callers have both called tryAcquireLock and neither await has resumed:
\* one of them won, the other lost.
C1_Witness ==
  /\ \A h \in Slots : handlers[h].pc = "lock_called"
  /\ \E h \in Slots : handlers[h].acquired
  /\ \E h \in Slots : ~handlers[h].acquired
  /\ Cardinality(lockWinners) = 1

\* C2: at most one provider stage is in flight for a conversation.
C2_OneTaskPerConversation ==
  \A k \in Keys :
    Cardinality({h \in Slots : handlers[h].key = k /\ handlers[h].pc \in StagePcs}) <= 1

\* What a completing stage could bring back: the entry, its titles, its outline.
ConvData(cs, key) ==
  IF key \in DOMAIN cs
    THEN <<TRUE, cs[key].generatedTitles, cs[key].generatedOutline>>
    ELSE <<FALSE, NoTitles, NoOutline>>

\* C3: when the provider call of a cancelled slot settles, no entry is
\* created, no titles or outline are stored, and the handler starts neither a
\* delivery nor a further stage.
C3_CancelIsFinal ==
  [][\A h \in Slots :
       (handlers[h].cancelled /\ handlers[h].pc \in StagePcs
          /\ handlers'[h].pc # handlers[h].pc)
       => /\ ConvData(conversations', handlers[h].key)
               = ConvData(conversations, handlers[h].key)
          /\ handlers'[h].pc \notin {"titles_sent", "outline_summary", "article_summary"}]_vars

\* C4: a lock that a handler acquired is eventually free again (released, or
\* gone with its conversation), whichever way the handler leaves.
C4_LockEventuallyFree ==
  \A k \in Keys :
    (\E h \in Slots : /\ handlers[h].key = k
                      /\ handlers[h].acquired
                      /\ handlers[h].pc \in {"topic_lock", "sel_lock", "article_lock"})
    ~> ~LockHeldFor(k)

\* A handler that holds the lock is leaving through the timeout path of the
\* outline stage.
C4_Witness ==
  \E h \in Slots : /\ handlers[h].pc = "sel_timeout"
                   /\ handlers[h].acquired
                   /\ LockHeldFor(handlers[h].key)

\* C5: after a sweep no lock older than the threshold is left, and the first
\* tryAcquireLock after a sweep reclaimed the lock returns true.
C5_StaleLockReclaimed ==
  /\ \A k \in DOMAIN conversations : ~IsStale(conversations[k], now)
  /\ (lastAcq.called /\ lastAcq.afterReclaim) => lastAcq.ok

\* A sweep has reclaimed a lock whose holder never released it, and the next
\* caller acquired it.
C5_Witness ==
  /\ lastAcq.called /\ lastAcq.afterReclaim /\ lastAcq.ok
  /\ \E h \in Slots : handlers[h].pc = "lock_held" /\ <<h, handlers[h].key>> \notin lockWinners

Msgs == SelectSeq(events, LAMBDA e : e[1] = "msg")

StageEvents ==
  SelectSeq(events, LAMBDA e : e[1] \in {"titles_call", "titles_stored", "outline_call",
                                         "outline_stored", "delivered", "article_call"})

\* A run of /generate, a valid topic and a valid selection in which no call,
\* validation or delivery has failed.
HappyRun ==
  /\ Len(Msgs) <= 3
  /\ Len(Msgs) >= 1 => Msgs[1][2] = "/generate"
  /\ Len(Msgs) >= 2 => Msgs[2][2] = "banh mi viet nam"
  /\ Len(Msgs) >= 3 => Msgs[3][2] \in {"2", "3"}
  /\ \A i \in 1..Len(events) :
       /\ events[i][1] # "deliver_failed"
       /\ events[i][1] = "send" =>
            events[i][2] \notin {"timeout", "error", "article_error", "no_title",
                                 "delivery_failed", "busy"}

SelectedTitle == IF Len(Msgs) >= 3 /\ Msgs[3][2] = "2" THEN Title(1, 2) ELSE Title(1, 3)

ExpectedStages ==
  << <<"titles_call", "banh mi viet nam", 0>>, <<"titles_stored", "", 0>>,
     <<"outline_call", "", SelectedTitle>>, <<"outline_stored", "", SelectedTitle>>,
     <<"delivered", "outline", 0>>, <<"article_call", "", SelectedTitle>>,
     <<"delivered", "article", 0>> >>

IsPrefix(s, t) == Len(s) <= Len(t) /\ \A i \in 1..Len(s) : s[i] = t[i]

\* C6: in a run without failure the stages happen once each and in order:
\* titles generated and stored, outline generated for the selected title and
\* stored, outline delivered, article generated, article delivered; at the end
\* the conversation is idle and unlocked.
C6_HappyPathOrder ==
  HappyRun =>
    /\ IsPrefix(StageEvents, ExpectedStages)
    /\ StageEvents = ExpectedStages =>
         \A k \in Keys : /\ k \in DOMAIN conversations
                         /\ conversations[k].step = "idle"
                         /\ ~conversations[k].isProcessing

C6_Witness ==
  /\ tracing = "run"
  /\ HappyRun
  /\ StageEvents = ExpectedStages
  /\ handlers[1].pc = "free"

\* C7: a text that arrives while the lock of its conversation is held ends in
\* the busy notice (a lost tryAcquireLock) and leaves the conversation as it
\* was, its activity stamp aside.
C7_BusyNotice ==
  [][\A h \in Slots, u \in Users, c \in Chats, m \in Texts :
       (Receive(h, u, c, m) /\ LockHeldFor(getKey(u, c)))
       => /\ handlers'[h].pc \in {"topic_lock", "sel_lock"}
          /\ ~handlers'[h].acquired
          /\ getKey(u, c) \in DOMAIN conversations'
          /\ [conversations'[getKey(u, c)] EXCEPT !.lastActivity = 0]
               = [conversations[getKey(u, c)] EXCEPT !.lastActivity = 0]]_vars

\* C8: a stored outline goes with a selected title, and a selected title is
\* one of the stored titles of the same conversation.
C8_OutlineHasTitle ==
  \A k \in DOMAIN conversations :
    LET cv == conversations[k] IN
    /\ cv.generatedOutline # NoOutline => cv.selectedTitle # NoTitle
    /\ cv.selectedTitle # NoTitle =>
         /\ cv.generatedTitles # NoTitles
         /\ \E i \in 1..Len(cv.generatedTitles) : cv.generatedTitles[i] = cv.selectedTitle

Min(a, b) == IF a < b THEN a ELSE b

\* C9: a checkLimit call is allowed exactly when it is among the first
\* maxRequestsPerMinute calls of its 60-second window; a rejected call reports
\* a retryAfter of at least one second; the first call after the window's end
\* opens a new window and is allowed.
C9_RateWindow ==
  (rateEnabled /\ lastCheck.called) =>
    /\ lastCheck.allowed <=> rlWindow.calls <= MaxRequestsPerMinute
    /\ ~lastCheck.allowed => lastCheck.retryAfter >= 1
    /\ \A u \in DOMAIN limits :
         /\ limits[u].windowStart = rlWindow.start
         /\ limits[u].requestCount = Min(rlWindow.calls, MaxRequestsPerMinute)

\* The window that began at 0 was used up, and a call made exactly one window
\* later has opened a new window and was allowed.
C9_Witness ==
  /\ rateEnabled /\ lastCheck.called /\ lastCheck.allowed
  /\ rlWindow.start = windowDuration /\ rlWindow.calls = 1
  /\ now = windowDuration

\* C10: a generation message (a text or /generate) passes the rate check
\* exactly once, in polling mode and in webhook mode.
C10_OneCheckPerMessage ==
  lastMsg.kind \in {"text", "/generate"} => lastMsg.checks = 1


\* C11: an update that the rate check rejects leaves the limiter's entries and
\* the conversations as they were.
C11_RejectedLeavesState ==
  [][\A u \in Users, c \in Chats, m \in Messages :
       (Receive(1, u, c, m) /\ ~lastMsg'.admitted)
       => (limits' = limits /\ conversations' = conversations)]_vars

\* C12: after a /cancel update, in either bot mode and whatever the limiter's
\* count, the conversation of the sender is absent.
C12_CancelAlwaysResets ==
  [][\A u \in Users, c \in Chats, m \in Commands :
       (Receive(1, u, c, m) /\ m.id = "/cancel")
       => getKey(u, c) \notin DOMAIN conversations']_vars

CallsOf(r, provider) == SelectSeq(r.calls, LAMBDA cl : cl.provider = provider)

FirstFailed(r) == Len(r.outcomes) >= 1 /\ ~r.outcomes[1].ok

\* C13: after a transient failure of the primary's first invocation the
\* router waits for the retry; the second invocation is the primary's, 2000 ms
\* after the failure; when it succeeds the request returns at once, with two
\* invocations in all, none of the backup, tagged with the primary.
C13_TransientRetriedOnce ==
  (FirstFailed(router) /\ isTransientError(router.outcomes[1].err)) =>
    /\ Len(router.calls) = 1 => router.pc = "primary_wait"
    /\ Len(router.calls) >= 2 =>
         router.calls[2] = Call(router.primary, 2, router.outcomes[1].at + 2000)
    /\ (Len(router.outcomes) >= 2 /\ router.outcomes[2].ok) =>
         /\ router.pc = "returned"
         /\ Len(router.calls) = 2
         /\ CallsOf(router, router.backup) = <<>>
         /\ router.result.provider = router.primary

C13_Witness ==
  /\ router.pc = "returned"
  /\ FirstFailed(router) /\ isTransientError(router.outcomes[1].err)
  /\ Len(router.outcomes) = 2 /\ router.outcomes[2].ok

\* C14: after a non-transient failure of the primary's first invocation no
\* later invocation is the primary's, and with backup enabled the step of the
\* failure itself makes the backup's first invocation.
C14_NonTransientFailsOver ==
  [][(FirstFailed(router') /\ ~isTransientError(router'.outcomes[1].err)) =>
       /\ \A i \in 2..Len(router'.calls) : router'.calls[i].provider # router'.primary
       /\ (Len(router.outcomes) = 0 /\ aiConfig.backupAI) =>
            /\ router'.pc = "backup_call"
            /\ router'.calls =
                 Append(router.calls, Call(router.backup, 1, router'.outcomes[1].at))]_vars

C14_Witness ==
  /\ FirstFailed(router) /\ ~isTransientError(router.outcomes[1].err)
  /\ Len(router.calls) >= 2
  /\ router.calls[2].provider = router.backup

\* The backup is invoked only after the primary path has ended in failure.
BackupAfterPrimary(r) ==
  LET n == Len(CallsOf(r, r.primary))
  IN  /\ \A i \in 1..Len(r.calls) : r.calls[i].provider = (IF i <= n THEN r.primary ELSE r.backup)
      /\ Len(r.outcomes) >= n
      /\ ~r.outcomes[n].ok
      /\ (n = 2 \/ ~isTransientError(r.outcomes[n].err))
      /\ r.primaryError = r.outcomes[n].err

\* C15: a request makes at most 2 invocations of the primary and at most 3 of
\* the backup; the backup is invoked only after the primary path has failed
\* for good and only with backupAI set at that moment; every request ends.
C15_BoundedAttempts ==
  /\ [](/\ Len(CallsOf(router, router.primary)) <= 2
        /\ Len(CallsOf(router, router.backup)) <= 3
        /\ CallsOf(router, router.backup) # <<>> => BackupAfterPrimary(router))
  /\ [][(CallsOf(router, router.backup) = <<>> /\ CallsOf(router', router'.backup) # <<>>)
          => aiConfig.backupAI]_vars
  /\ (router.pc # "idle") ~> (router.pc \in {"returned", "thrown"})

C15_Witness ==
  /\ router.pc = "thrown"
  /\ Len(CallsOf(router, router.primary)) = 2
  /\ Len(CallsOf(router, router.backup)) = 3

LastOutcome(r) == r.outcomes[Len(r.outcomes)]
PrimaryFinalError(r) == r.outcomes[Len(CallsOf(r, r.primary))].err

\* C16: a request that fails throws the primary's last error itself when the
\* backup was disabled, and otherwise one error that embeds the message of the
\* primary's last error and the message of the backup's last error.
C16_ErrorsPropagate ==
  router.pc = "thrown" =>
    IF router.backupRead
      THEN /\ router.thrown.parts = <<PrimaryFinalError(router).msg, LastOutcome(router).err.msg>>
           /\ router.thrown # PrimaryFinalError(router)
           /\ router.thrown # LastOutcome(router).err
      ELSE /\ router.thrown = PrimaryFinalError(router)
           /\ CallsOf(router, router.backup) = <<>>

\* Both paths are exhausted, the primary after a retry whose error differs
\* from the first one.
C16_Witness ==
  /\ router.pc = "thrown" /\ router.backupRead
  /\ Len(CallsOf(router, router.primary)) = 2
  /\ router.outcomes[1].err # router.outcomes[2].err

\* C17: a response carries the data of the last invocation, which succeeded,
\* and is tagged with the provider of that invocation.
C17_TagIsProducer ==
  router.pc = "returned" =>
    /\ LastOutcome(router).ok
    /\ router.result.data = Data(LastOutcome(router).provider, LastOutcome(router).attempt)
    /\ router.result.provider = LastOutcome(router).provider

\* The backup served the request while the config names it as the default.
C17_Witness ==
  /\ router.pc = "returned"
  /\ router.result.provider = router.backup
  /\ aiConfig.defaultProvider = router.backup

\* The decimal numerals of 1..10.
NumeralsOneToTen == {"1", "2", "3", "4", "5", "6", "7", "8", "9", "10"}

StoredExceptActivity(cs, key) == [cs[key] EXCEPT !.lastActivity = 0]

AwaitsSelection(key) ==
  /\ key \in DOMAIN conversations
  /\ conversations[key].step = "waiting_title_selection"
  /\ conversations[key].generatedTitles # NoTitles

\* C18: with titles stored and a selection awaited, a text that is not a
\* number of 1..10 is answered without a lock, a provider call or a change of
\* the conversation; a number of 1..10 above the count of the stored titles
\* leads to the reset of the conversation without a provider call.
C18_SelectionValidated ==
  [][\A u \in Users, c \in Chats, m \in InputTexts :
       LET key == getKey(u, c) IN
       /\ (Receive(1, u, c, m) /\ AwaitsSelection(key) /\ m.id \notin NumeralsOneToTen)
            => /\ handlers'[1] = FreeHandler
               /\ key \in DOMAIN conversations'
               /\ StoredExceptActivity(conversations', key)
                    = StoredExceptActivity(conversations, key)
       /\ (Receive(1, u, c, m) /\ AwaitsSelection(key) /\ m.id \in NumeralsOneToTen
             /\ m.num > Len(conversations[key].generatedTitles))
            => /\ handlers'[1].pc = "sel_reset"
               /\ ~conversations'[key].isProcessing
       /\ (handlers[1].pc = "sel_reset" /\ handlers'[1] # handlers[1])
            => (handlers'[1] = FreeHandler /\ key \notin DOMAIN conversations')]_vars

\* C19: in step waiting_topic a text whose sanitized length is 0, below 5 or
\* above 200 is answered without a lock or a provider call, and the
\* conversation stays as it is, in step waiting_topic.
C19_TopicValidated ==
  [][\A u \in Users, c \in Chats, m \in InputTexts :
       LET key == getKey(u, c) IN
       (/\ Receive(1, u, c, m)
        /\ key \in DOMAIN conversations
        /\ conversations[key].step = "waiting_topic"
        /\ (m.len - m.zw < 5 \/ m.len - m.zw > 200))
       => /\ handlers'[1] = FreeHandler
          /\ key \in DOMAIN conversations'
          /\ conversations'[key].step = "waiting_topic"
          /\ StoredExceptActivity(conversations', key)
               = StoredExceptActivity(conversations, key)]_vars

\* A topic of 5 characters, one of them zero-width, has just been rejected.
C19_Witness ==
  /\ Len(events) >= 2
  /\ events[Len(events) - 1] = <<"msg", "abc<ZWSP>d", 0>>
  /\ events[Len(events)] = <<"send", "invalid", 0>>
  /\ \E k \in DOMAIN conversations :
       conversations[k].step = "waiting_topic" /\ ~conversations[k].isProcessing
  /\ handlers[1] = FreeHandler

\* C20: the provider call of the article stage is only made for an outline
\* with non-empty keyword, audience and purpose and at least 3 sections, each
\* with a non-empty heading.
C20_ArticleNeedsValidOutline ==
  \A h \in Slots :
    handlers[h].pc = "article_call" =>
      LET o == handlers[h].outline IN
      /\ o.targetKeyword /\ o.targetAudience /\ o.contentPurpose
      /\ Len(o.outline) >= 3
      /\ \A i \in 1..Len(o.outline) : o.outline[i]

\* An outline with fewer than 3 sections reached the article stage and was
\* turned down.
C20_Witness ==
  \E h \in Slots :
    /\ handlers[h].pc = "article_err"
    /\ Len(handlers[h].outline.outline) < 3

WebhookPcs == {"outline_webhook", "article_webhook"}
NotifyPcs == {"outline_notify", "article_notify"}

\* C21: a transmission attempt of a delivery in progress is the first, the
\* second or the third one, never a fourth.
C21_AtMostThreeAttempts ==
  \A h \in Slots :
    handlers[h].pc \in WebhookPcs => handlers[h].attempt + 1 <= 3

Count(name, what) ==
  Len(SelectSeq(events, LAMBDA e : e[1] = name /\ e[2] = what))

\* Deliveries that have ended without an attempt answered with HTTP 200.
FailedDeliveries ==
  Count("deliver_start", "outline_summary") + Count("deliver_start", "article_summary")
    - Count("delivered", "outline") - Count("delivered", "article")
    - (IF handlers[1].pc \in WebhookPcs THEN 1 ELSE 0)

\* C22: each delivery whose attempts all failed has produced exactly one
\* failure notice, and once that notice has settled, sent or not, the stage
\* goes on as after a delivery: to the article lock, or to its end.
C22_OneNoticeNoException ==
  /\ [](Count("send", "delivery_failed") = FailedDeliveries)
  /\ [][\A h \in Slots :
          (handlers[h].pc \in NotifyPcs /\ handlers'[h] # handlers[h])
          => /\ handlers'[h].pc \in {"article_lock", "free"}
             /\ Count("send", "delivery_failed")' = Count("send", "delivery_failed")
             /\ Len(events') <= Len(events) + 1]_vars

\* Both deliveries of a run failed at every attempt and the run has ended.
C22_Witness ==
  /\ Count("send", "delivery_failed") = 2
  /\ Count("lock_released", "article") = 1
  /\ handlers[1] = FreeHandler

LockCleared(cs, key) ==
  /\ ~cs[key].isProcessing
  /\ cs[key].processingTask = NoTask
  /\ cs[key].lockAcquiredAt = Undefined

Blank(cs, key) ==
  key \notin DOMAIN cs \/ [cs[key] EXCEPT !.lastActivity = 0] = NewConversation(0)

\* The store without its blank entries.
Norm(cs) == [k \in {x \in DOMAIN cs : ~Blank(cs, x)} |-> cs[k]]

\* C25: in every state where the sender has no conversation or a fresh idle
\* one, every message gets the same reply, starts the same work and leaves
\* the same store (up to blank entries) from the store without the entry as
\* from the store with a fresh idle entry.
C25_AbsentIsFreshIdle ==
  \A u \in Users, c \in Chats, m \in Messages, created \in {0, now} :
    LET key == getKey(u, c)
        a == dispatch(Del(conversations, key), key, m, now)
        b == dispatch(Put(conversations, key, NewConversation(created)), key, m, now)
    IN  Blank(conversations, key) =>
          /\ a.reply = b.reply
          /\ a.hd = b.hd
          /\ a.acq = b.acq
          /\ Norm(a.convs) = Norm(b.convs)

ErrorNoticePcs == {"topic_timeout", "sel_timeout", "article_err", "msg_error"}

\* C26: when the provider call of a stage fails or times out, the lock of
\* the conversation is no longer held at the moment the error message is
\* handed to the messaging transport.
C26_ReleaseBeforeErrorNotice ==
  [][\A h \in Slots :
       (handlers[h].pc \in StagePcs /\ handlers'[h].pc \in ErrorNoticePcs)
       => ~(/\ handlers[h].key \in DOMAIN conversations'
            /\ conversations'[handlers[h].key].isProcessing)]_vars

\* C27: while the outline is being delivered to the external endpoint,
\* retries and failure notice included, the conversation's lock is not held.
C27_NoLockDuringOutlineDelivery ==
  \A h \in Slots :
    handlers[h].pc \in {"outline_webhook", "outline_notify"}
    => ~LockHeldFor(handlers[h].key)

\* C28: a conversation in step waiting_title_selection has its titles stored.
C28_SelectionStepHasTitles ==
  \A k \in DOMAIN conversations :
    conversations[k].step = "waiting_title_selection"
    => conversations[k].generatedTitles # NoTitles

\* The first-invocation failures that are connection resets, socket
\* terminations, HTTP 429 or HTTP 500..599.
ClaimedTransient(provider) ==
  networkErrors(provider)
    \cup {statusError(provider, st) : st \in {x \in Statuses : x = 429 \/ (x >= 500 /\ x <= 599)}}

\* C29: after a first invocation of the primary failed with a connection
\* reset, a socket termination, HTTP 429 or any HTTP 5xx, the router waits for
\* the retry, and the second invocation is the primary's.
C29_TransientKindsRetried ==
  (FirstFailed(router) /\ router.outcomes[1].err \in ClaimedTransient(router.primary)) =>
    /\ Len(router.calls) = 1 => router.pc = "primary_wait"
    /\ Len(router.calls) >= 2 =>
         (router.calls[2].provider = router.primary /\ router.calls[2].attempt = 2)

TimeoutOrParse(provider) ==
  parseErrors(provider) \cup {timeoutError(provider, ms) : ms \in TimeoutValues}

\* C30: after a first invocation of the primary failed with a timeout, for
\* any configured timeout, or with a parse error, the primary is not invoked
\* again: the backup is invoked, or the request has failed.
C30_TimeoutAndParseNotRetried ==
  (FirstFailed(router) /\ router.outcomes[1].err \in TimeoutOrParse(router.primary)) =>
    /\ router.pc # "primary_wait"
    /\ Len(CallsOf(router, router.primary)) = 1
    /\ ~router.backupRead => router.pc = "thrown"

ArticlePcs ==
  {"article_lock", "article_call", "article_err", "article_summary",
   "article_webhook", "article_notify"}

\* C31: once the failure notice of the outline delivery has settled, the
\* article stage is entered; the handler then comes to its end, and at its
\* end the conversation is in step idle with no lock held.
C31_FlowCompletesAfterFailedDelivery ==
  /\ [][(handlers[1].pc = "outline_notify" /\ handlers'[1] # handlers[1])
          => handlers'[1].pc = "article_lock"]_vars
  /\ [][(handlers[1].pc \in ArticlePcs /\ handlers'[1] = FreeHandler)
          => /\ handlers[1].key \in DOMAIN conversations'
             /\ conversations'[handlers[1].key].step = "idle"
             /\ ~conversations'[handlers[1].key].isProcessing]_vars
  /\ (handlers[1].pc = "outline_notify") ~> (handlers[1] = FreeHandler)

\* Every transmission of the outline failed, and the article stage has run
\* to its end.
C31_Witness ==
  /\ Count("deliver_failed", "outline") = webhookMaxRetries + 1
  /\ Count("delivered", "outline") = 0
  /\ Count("article_done", "") = 1
  /\ handlers[1] = FreeHandler
  /\ \E k \in DOMAIN conversations :
       conversations[k].step = "idle" /\ ~conversations[k].isProcessing

\* C32: the minutes reported to the user for a stage that timed out are the
\* timeout the router applied to the provider call of that stage.
C32_ReportedTimeoutIsApplied ==
  timeoutReport.stage # "none" => timeoutReport.minutes * 60000 = timeoutReport.applied

\* C33: when time passes and the sweep runs, no stale lock is left, and a
\* conversation whose lock the sweep cleared is still stored, with every
\* field other than isProcessing, processingTask, lockAcquiredAt and
\* lastActivity as before.
C33_ReclaimKeepsState ==
  [][now' # now =>
       /\ \A k \in DOMAIN conversations' : ~IsStale(conversations'[k], now')
       /\ \A k \in DOMAIN conversations :
            IsStale(conversations[k], now')
            => /\ k \in DOMAIN conversations'
               /\ LockCleared(conversations', k)
               /\ conversations'[k] =
                    [conversations[k] EXCEPT !.isProcessing = FALSE,
                                             !.processingTask = NoTask,
                                             !.lockAcquiredAt = Undefined,
                                             !.lastActivity = conversations'[k].lastActivity]]_vars

\* The sweep has reclaimed the lock of an outline stage still in flight: the
\* topic, the titles and the selected title are in place.
C33_Witness ==
  \E k \in reclaimed :
    /\ k \in DOMAIN conversations
    /\ LockCleared(conversations, k)
    /\ conversations[k].step = "outline_generated"
    /\ conversations[k].topic # NoTopic
    /\ conversations[k].generatedTitles # NoTitles
    /\ conversations[k].selectedTitle # NoTitle
    /\ handlers[1].pc = "outline_call"

\* C34: the generatedTitles of a conversation, once set, are 10 titles.
C34_TenTitlesStored ==
  \A k \in DOMAIN conversations :
    conversations[k].generatedTitles # NoTitles
    => Len(conversations[k].generatedTitles) = 10

\* C35: within one generateJSON request the providers are those of the
\* configuration at the start of the request, and the backup is attempted
\* after the primary path failed exactly when that configuration enabled it.
C35_SnapshotIsStatic ==
  [][ /\ (router.pc # "idle" /\ router'.pc # "idle")
         => (router'.primary = router.primary /\ router'.backup = router.backup)
      /\ (router.pc = "primary_call" /\ router'.pc \in {"backup_call", "thrown"})
         => (router'.pc = "backup_call" <=> router.backupAIAtStart) ]_vars

\* The stage whose lock a handler took before it reached pc.
TaskAt(pc) ==
  IF pc \in {"titles_call", "titles_sent", "topic_timeout"} THEN "titles"
  ELSE IF pc \in {"outline_call", "outline_summary", "outline_webhook", "outline_notify"}
    THEN "outline"
  ELSE IF pc \in {"article_call", "article_summary", "article_err"} THEN "article"
  ELSE "none"

\* C36: a step of a handler that clears the lock of its conversation clears
\* a lock that this handler acquired: the lock it clears is the one of the
\* handler's own stage, never the lock another task took for a different stage.
C36_ReleasesOwnLock ==
  [][\A h \in Slots :
       LET k == handlers[h].key IN
       ( /\ TaskAt(handlers[h].pc) # "none"
         /\ handlers'[h].pc # handlers[h].pc
         /\ LockHeldFor(k)
         /\ k \in DOMAIN conversations'
         /\ ~conversations'[k].isProcessing )
       => conversations[k].processingTask = TaskAt(handlers[h].pc)]_vars

\* C37: when the provider call of a task settles after /generate restarted
\* its conversation (the entry is back at waiting_topic, a step no task in
\* flight leaves behind), the new entry keeps its step and receives no titles
\* and no outline.
C37_RestartIsolatesOldTask ==
  [][\A h \in Slots :
       LET k == handlers[h].key IN
       ( /\ handlers[h].pc \in StagePcs
         /\ handlers'[h].pc # handlers[h].pc
         /\ k \in DOMAIN conversations
         /\ conversations[k].step = "waiting_topic" )
       => /\ k \in DOMAIN conversations'
          /\ conversations'[k].step = "waiting_topic"
          /\ ConvData(conversations', k) = ConvData(conversations, k)]_vars

\* C38: in the outline-to-article chain the acquisition of the article lock
\* succeeds: a handler awaiting that acquisition holds the lock, whatever the
\* other handlers of the conversation do, and leaves the await into the
\* article stage, never with the notice of a task in progress.
C38_ArticleLockGranted ==
  /\ [](\A h \in Slots : handlers[h].pc = "article_lock" => handlers[h].acquired)
  /\ [][\A h \in Slots :
          (handlers[h].pc = "article_lock" /\ handlers'[h].pc # "article_lock")
          => handlers'[h].pc \in {"article_call", "article_err"}]_vars

\* The chain reached the article lock while another handler of the same
\* conversation, refused the lock during the outline stage, is still awaiting.
C38_Witness ==
  \E h, g \in Slots :
    /\ h # g
    /\ handlers[h].pc = "article_lock" /\ handlers[h].acquired
    /\ handlers[g].key = handlers[h].key
    /\ handlers[g].pc \in {"topic_lock", "sel_lock"} /\ ~handlers[g].acquired

\* C39: once the restartBot calls have completed and the manager has a bot
\* running, that bot has the message-handler setup applied exactly once.
C39_HandlersAttachedOnce ==
  ( /\ \A r \in Restarters : botManager.calls[r].pc = "idle"
    /\ botManager.bot # 0 /\ botManager.isInitialized )
  => botManager.listeners[botManager.bot] = 1

\* C40: every checkLimit call returns the allowed flag and the retry-after
\* that the same call returns from a limiter given the same calls at the same
\* times whose cleanup never ran.
C40_EvictionIsTransparent ==
  \A i \in 1..Len(uncleaned.calls) : uncleaned.calls[i].real = uncleaned.calls[i].ref

\* A checkLimit call made after cleanup evicted the entry of its user, which
\* the limiter without cleanup still holds.
C40_Witness ==
  /\ uncleaned.afterEviction
  /\ Len(uncleaned.calls) > 0
  /\ \E u \in DOMAIN limits : limits[u].windowStart >= windowDuration * 2

=============================================================================
